---- MODULE Spec2Model ----
(***************************************************************************)
(* Model of deploy.py: the sequential deployment orchestrator (main) and   *)
(* the phase runner (run_phase_script), together with the child process    *)
(* that Popen(["bash", script_path]) starts.                               *)
(***************************************************************************)
EXTENDS Integers, Sequences, FiniteSets, TLC

\* ------------------------------------------------------------------ bounds
\* longest prefix of the static phase list a run is started with
MaxPhases == 4
\* most lines one child script writes before it exits
MaxLines == 2

\* ----------------------------------------------------------- static data
\* deploy.py:38-48, the literal phase list (name, script)
AllPhases ==
  << [name |-> "Preflight Checks",  script |-> "01-preflight-checks.sh"],
     [name |-> "Infrastructure",    script |-> "02-infrastructure.sh"],
     [name |-> "K3s Base Install",  script |-> "03-k3s-base-install.sh"],
     [name |-> "Secure Runtimes",   script |-> "04-secure-runtimes.sh"],
     [name |-> "GPU Operator",      script |-> "05-gpu-operator.sh"],
     [name |-> "Nexus Framework",   script |-> "06-nexus-framework.sh"],
     [name |-> "RBaaS Integration", script |-> "07-rbaas-integration.sh"],
     [name |-> "Observability",     script |-> "08-observability.sh"],
     [name |-> "Validation",        script |-> "09-validation.sh"] >>

\* the status strings of deploy.py:39,63,68,71
Pending  == "Pending"
Running  == "Running"
Complete == "Complete"
Failed   == "Failed"

\* the lengths of phase list a run is checked with: every prefix up to
\* MaxPhases (the empty list included) and the full list of the program
PhaseCounts == (0 .. MaxPhases) \cup {Len(AllPhases)}

\* phases_data as built at deploy.py:38-48, cut to its first n entries
InitialPhases(n) ==
  [k \in 1 .. n |-> [name   |-> AllPhases[k].name,
                     script |-> AllPhases[k].script,
                     status |-> Pending]]

\* os.path.join("scripts", phase["script"]), deploy.py:60
JoinPath(dir, file) == <<dir, file>>

\* os.path.basename(script_path), deploy.py:14
Basename(path) == path[Len(path)]

\* ------------------------------------------------------- lines of output
\* a line is a sequence of characters; " " is whitespace
Chars == {"x", " "}
ScriptLines == { <<"x">>, <<" ", "x">>, <<"x", " ">>, << >> }

\* the diagnostic bash writes on stderr when it cannot open the script
BashDiagnostic == <<"e">>

RECURSIVE LStrip(_)
LStrip(s) == IF s # << >> /\ Head(s) = " " THEN LStrip(Tail(s)) ELSE s

RECURSIVE RStrip(_)
RStrip(s) ==
  IF s # << >> /\ s[Len(s)] = " " THEN RStrip(SubSeq(s, 1, Len(s) - 1)) ELSE s

\* str.strip(), deploy.py:26
Strip(s) == RStrip(LStrip(s))

\* the string handed to console.print at deploy.py:26
SinkText(line) == <<" ", " ">> \o Strip(line)

\* make_table(), deploy.py:50-56: one row (name, status) per phase, in order
make_table(pd) == [k \in 1 .. Len(pd) |-> <<pd[k].name, pd[k].status>>]

\* ------------------------------------------------------------------ state
VARIABLES
  pc,           \* position of main / run_phase_script
  config,       \* deploy.py:35-36: unloaded, loaded, or failed (load raised)
  phases_data,  \* deploy.py:38, list of phases with their status
  i,            \* loop index of deploy.py:59 (1-based, 0 before the loop)
  script_path,  \* deploy.py:60
  live,         \* the Live display of deploy.py:58: none, active, stopped
  table,        \* renderable held by Live (deploy.py:58,64,72,75)
  updates,      \* number of live.update calls so far
  message,      \* last message main printed (deploy.py:33,65,69,73,78)
  runs,         \* per phase: number of calls of run_phase_script
  script_kind,  \* what script_path is on disk for the current call
  child,        \* per phase: the process started by Popen, [state, code]
  emitted,      \* lines the current child has written to its stdout/stderr
  nread,        \* how many of them the loop of deploy.py:25 has read
  sink,         \* console.print calls of deploy.py:26 in the current call
  returncode,   \* per phase: process.returncode, {} (None) until wait returns
  retval,       \* value returned by run_phase_script
  exit_status   \* exit status of the python process, {} while it runs

vars == << pc, config, phases_data, i, script_path, live, table, updates, message, runs,
           script_kind, child, emitted, nread, sink,
           returncode, retval, exit_status >>

N == Len(phases_data)

\* file-system situations of a script path
ScriptKinds == {"executable", "not_executable", "missing", "unreadable"}

\* exit codes a script chooses, and the signal that may kill it
\* (Popen reports death by signal s as returncode -s)
ScriptExits == {0, 1, 2, -9}

\* what bash does with the path: it reads and runs any readable file
\* (the executable bit is not consulted), and otherwise fails itself
BashRuns(kind) == kind \in {"executable", "not_executable"}
BashFailure(kind) == IF kind = "missing" THEN 127 ELSE 126

NoChild == [state |-> "none", code |-> {}]

\* a console.print of main: which message, and the phase name it carries
Msg(kind, name) == [kind |-> kind, phase |-> name]

\* the status is written to every phase of the list
SetStatus_All(pd, k, st) == [j \in 1 .. Len(pd) |-> [pd[j] EXCEPT !.status = st]]

\* phases_data[i]["status"] = st, deploy.py:63,68,71
SetStatus(pd, k, st) == [pd EXCEPT ![k].status = st]

Init ==
  /\ pc = "banner"
  /\ config = "unloaded"
  /\ \E n \in PhaseCounts : phases_data = InitialPhases(n)
  /\ i = 0
  /\ script_path = << >>
  /\ live = "none"
  /\ table = << >>
  /\ updates = 0
  /\ message = Msg("none", "")
  /\ runs = [k \in 1 .. N |-> 0]
  /\ script_kind = "unknown"
  /\ child = [k \in 1 .. N |-> NoChild]
  /\ emitted = << >>
  /\ nread = 0
  /\ sink = << >>
  /\ returncode = [k \in 1 .. N |-> {}]
  /\ retval = FALSE
  /\ exit_status = {}

\* ------------------------------------------------------------------ main
\* deploy.py:33
PrintBanner ==
  /\ pc = "banner"
  /\ message' = Msg("banner", "")
  /\ pc' = "load_config"
  /\ UNCHANGED << config, live, phases_data, i, script_path, table, updates, runs,
                  script_kind, child, emitted, nread, sink, returncode,
                  retval, exit_status >>

\* deploy.py:35-48, the file opens and parses; phases_data is the literal list
LoadConfig ==
  /\ pc = "load_config"
  /\ pc' = "live_enter"
  /\ config' = "loaded"
  /\ UNCHANGED << live, phases_data, i, script_path, table, updates, message, runs,
                  script_kind, child, emitted, nread, sink, returncode,
                  retval, exit_status >>

\* the exception of the load is swallowed and main goes on
LoadConfigRaises_Swallowed ==
  /\ pc = "load_config"
  /\ pc' = "live_enter"
  /\ config' = "failed"
  /\ UNCHANGED << live, phases_data, i, script_path, table, updates, message,
                  runs, script_kind, child, emitted, nread, sink, returncode,
                  retval, exit_status >>

\* deploy.py:35-36, open() or yaml.safe_load() raises: nothing catches it,
\* the interpreter prints the traceback and exits with status 1
LoadConfigRaises ==
  /\ pc = "load_config"
  /\ pc' = "crashed"
  /\ exit_status' = {1}
  /\ config' = "failed"
  /\ UNCHANGED << live, phases_data, i, script_path, table, updates, message, runs,
                  script_kind, child, emitted, nread, sink, returncode,
                  retval >>

\* deploy.py:58, Live(make_table(), ...) shows the initial table
LiveEnter ==
  /\ pc = "live_enter"
  /\ table' = make_table(phases_data)
  /\ pc' = "loop"
  /\ live' = "active"
  /\ UNCHANGED << config, phases_data, i, script_path, updates, message, runs,
                  script_kind, child, emitted, nread, sink, returncode,
                  retval, exit_status >>

\* deploy.py:59-60, the next phase of the enumeration
LoopNext ==
  /\ pc = "loop"
  /\ i < N
  /\ i' = i + 1
  /\ script_path' = JoinPath("scripts", phases_data[i + 1].script)
  /\ pc' = "set_running"
  /\ UNCHANGED << config, live, phases_data, table, updates, message, runs, script_kind,
                  child, emitted, nread, sink, returncode, retval,
                  exit_status >>

\* the table is rendered once more when the loop is left
LoopEnd_Renders ==
  /\ pc = "loop"
  /\ i >= N
  /\ pc' = "print_done"
  /\ live' = "stopped"
  /\ table' = make_table(phases_data)
  /\ updates' = updates + 1
  /\ UNCHANGED << config, phases_data, i, script_path, message, runs,
                  script_kind, child, emitted, nread, sink, returncode,
                  retval, exit_status >>

\* deploy.py:59, the enumeration is exhausted; the with block is left
LoopEnd ==
  /\ pc = "loop"
  /\ i >= N
  /\ pc' = "print_done"
  /\ live' = "stopped"
  /\ UNCHANGED << config, phases_data, i, script_path, table, updates, message, runs,
                  script_kind, child, emitted, nread, sink, returncode,
                  retval, exit_status >>

\* the status is not touched before the script is started
SetRunning_Skipped ==
  /\ pc = "set_running"
  /\ pc' = "update_running"
  /\ UNCHANGED << config, live, phases_data, i, script_path, table, updates, message,
                  runs, script_kind, child, emitted, nread, sink, returncode,
                  retval, exit_status >>

\* deploy.py:63
SetRunning ==
  /\ pc = "set_running"
  /\ phases_data' = SetStatus(phases_data, i, Running)
  /\ pc' = "update_running"
  /\ UNCHANGED << config, live, i, script_path, table, updates, message, runs, script_kind,
                  child, emitted, nread, sink, returncode, retval,
                  exit_status >>

\* live.update(make_table()), deploy.py:64,72,75
LiveUpdate(at, next) ==
  /\ pc = at
  /\ table' = make_table(phases_data)
  /\ updates' = updates + 1
  /\ pc' = next
  /\ UNCHANGED << config, live, phases_data, i, script_path, message, runs, script_kind,
                  child, emitted, nread, sink, returncode, retval,
                  exit_status >>

\* the table is not rendered after the phase is set Running
UpdateRunning_Skipped ==
  /\ pc = "update_running"
  /\ pc' = "print_start"
  /\ UNCHANGED << config, live, phases_data, i, script_path, table, updates,
                  message, runs, script_kind, child, emitted, nread, sink,
                  returncode, retval, exit_status >>

\* deploy.py:64
UpdateRunning == LiveUpdate("update_running", "print_start")

\* console.print of main, deploy.py:65,69,73
PrintMessage(at, kind, next) ==
  /\ pc = at
  /\ message' = Msg(kind, phases_data[i].name)
  /\ pc' = next
  /\ UNCHANGED << config, live, phases_data, i, script_path, table, updates, runs,
                  script_kind, child, emitted, nread, sink, returncode,
                  retval, exit_status >>

\* deploy.py:65
PrintStart == PrintMessage("print_start", "starting", "call")

\* ------------------------------------------------------ run_phase_script
\* deploy.py:12-14, entry of run_phase_script and its "Running <basename>..."
RunPhaseScript ==
  /\ pc = "call"
  /\ runs' = [runs EXCEPT ![i] = @ + 1]
  /\ message' = Msg("running_script", Basename(script_path))
  /\ script_kind' = "unknown"
  /\ emitted' = << >>
  /\ nread' = 0
  /\ sink' = << >>
  /\ pc' = "popen"
  /\ UNCHANGED << config, live, phases_data, i, script_path, table, updates, child,
                  returncode, retval, exit_status >>

\* deploy.py:15-22, Popen starts bash on script_path, whatever the path is
Popen ==
  /\ pc = "popen"
  /\ \E kind \in ScriptKinds : script_kind' = kind
  /\ child' = [child EXCEPT ![i] = [state |-> "running", code |-> {}]]
  /\ pc' = "stream"
  /\ UNCHANGED << config, live, phases_data, i, script_path, table, updates, message, runs,
                  emitted, nread, sink, returncode, retval, exit_status >>

\* deploy.py:15, Popen raises OSError (bash cannot be started: not on PATH,
\* fork fails). Nothing catches it: the with block is left, traceback, exit 1
PopenRaises ==
  /\ pc = "popen"
  /\ pc' = "crashed"
  /\ exit_status' = {1}
  /\ live' = "stopped"
  /\ UNCHANGED << config, phases_data, i, script_path, table, updates, message, runs,
                  script_kind, child, emitted, nread, sink, returncode,
                  retval >>

\* deploy.py:25-26, one iteration of the loop: the next line of the pipe is
\* read and printed, stripped
StreamLine ==
  /\ pc = "stream"
  /\ nread < Len(emitted)
  /\ nread' = nread + 1
  /\ sink' = Append(sink, SinkText(emitted[nread + 1]))
  /\ UNCHANGED << config, live, pc, phases_data, i, script_path, table, updates, message,
                  runs, script_kind, child, emitted, returncode, retval,
                  exit_status >>

\* the loop of deploy.py:25 stops skipping what is still in the pipe
StreamEOF_DropsTail ==
  /\ pc = "stream"
  /\ child[i].state \in {"closed", "exited"}
  /\ pc' = "wait"
  /\ UNCHANGED << config, live, phases_data, i, script_path, table, updates, message, runs,
                  script_kind, child, emitted, nread, sink, returncode,
                  retval, exit_status >>

\* deploy.py:25, the loop ends at end of file: the pipe is drained and its
\* write end is closed
StreamEOF ==
  /\ pc = "stream"
  /\ nread = Len(emitted)
  /\ child[i].state \in {"closed", "exited"}
  /\ pc' = "wait"
  /\ UNCHANGED << config, live, phases_data, i, script_path, table, updates, message, runs,
                  script_kind, child, emitted, nread, sink, returncode,
                  retval, exit_status >>

\* the child is polled instead of waited for
ProcessWait_NoBlock ==
  /\ pc = "wait"
  /\ returncode' = [returncode EXCEPT ![i] = child[i].code]
  /\ child' = [child EXCEPT ![i].state =
                 IF child[i].state = "exited" THEN "reaped" ELSE @]
  /\ pc' = "return"
  /\ UNCHANGED << config, live, phases_data, i, script_path, table, updates,
                  message, runs, script_kind, emitted, nread, sink, retval,
                  exit_status >>

\* deploy.py:28, process.wait() blocks until the child has exited, reaps it
\* and sets process.returncode
ProcessWait ==
  /\ pc = "wait"
  /\ child[i].state = "exited"
  /\ returncode' = [returncode EXCEPT ![i] = child[i].code]
  /\ child' = [child EXCEPT ![i].state = "reaped"]
  /\ pc' = "return"
  /\ UNCHANGED << config, live, phases_data, i, script_path, table, updates, message, runs,
                  script_kind, emitted, nread, sink, retval, exit_status >>

\* return value that ignores the return code
ReturnValue_AlwaysTrue(rc) == TRUE

\* return value that reports every script as failed
ReturnValue_AlwaysFalse(rc) == FALSE

\* deploy.py:29, process.returncode == 0
ReturnValue(rc) == rc = {0}

\* deploy.py:29, return to main
Return ==
  /\ pc = "return"
  /\ retval' = ReturnValue(returncode[i])
  /\ pc' = "branch"
  /\ UNCHANGED << config, live, phases_data, i, script_path, table, updates, message, runs,
                  script_kind, child, emitted, nread, sink, returncode,
                  exit_status >>

\* ------------------------------------------------------ the child process
\* the script writes a line to stdout or stderr (both are the one pipe)
ChildWrite ==
  /\ pc \in {"stream", "wait"}
  /\ child[i].state = "running"
  /\ BashRuns(script_kind)
  /\ Len(emitted) < MaxLines
  /\ \E line \in ScriptLines : emitted' = Append(emitted, line)
  /\ UNCHANGED << config, live, pc, phases_data, i, script_path, table, updates, message,
                  runs, script_kind, child, nread, sink, returncode, retval,
                  exit_status >>

\* the script closes its stdout and stderr and goes on running
ChildCloseOutput ==
  /\ \E k \in 1 .. N :
       /\ child[k].state = "running"
       /\ k = i => BashRuns(script_kind)
       /\ child' = [child EXCEPT ![k].state = "closed"]
  /\ UNCHANGED << config, live, pc, phases_data, i, script_path, table, updates, message,
                  runs, script_kind, emitted, nread, sink, returncode, retval,
                  exit_status >>

\* the script exits with a code of its choice, or a signal kills it
ChildExit ==
  /\ \E k \in 1 .. N, code \in ScriptExits :
       /\ child[k].state \in {"running", "closed"}
       /\ k = i => BashRuns(script_kind)
       /\ child' = [child EXCEPT ![k] = [state |-> "exited", code |-> {code}]]
  /\ UNCHANGED << config, live, pc, phases_data, i, script_path, table, updates, message,
                  runs, script_kind, emitted, nread, sink, returncode, retval,
                  exit_status >>

\* bash cannot open the script: it writes its diagnostic on stderr
BashDiagnoses ==
  /\ pc \in {"stream", "wait"}
  /\ child[i].state = "running"
  /\ ~ BashRuns(script_kind)
  /\ emitted = << >>
  /\ emitted' = << BashDiagnostic >>
  /\ UNCHANGED << config, live, pc, phases_data, i, script_path, table, updates, message,
                  runs, script_kind, child, nread, sink, returncode, retval,
                  exit_status >>

\* ... and exits with 127 (no such file) or 126 (cannot be read)
BashFails ==
  /\ pc \in {"stream", "wait"}
  /\ child[i].state = "running"
  /\ ~ BashRuns(script_kind)
  /\ emitted = << BashDiagnostic >>
  /\ child' = [child EXCEPT ![i] = [state |-> "exited",
                                    code  |-> {BashFailure(script_kind)}]]
  /\ UNCHANGED << config, live, pc, phases_data, i, script_path, table, updates, message,
                  runs, script_kind, emitted, nread, sink, returncode, retval,
                  exit_status >>

\* ------------------------------------------------- main, after the call
\* the status is left as it is
SetComplete_Forgets ==
  /\ pc = "branch"
  /\ retval
  /\ pc' = "print_complete"
  /\ UNCHANGED << config, live, phases_data, i, script_path, table, updates, message, runs,
                  script_kind, child, emitted, nread, sink, returncode,
                  retval, exit_status >>

\* deploy.py:67-68, run_phase_script returned True
SetComplete ==
  /\ pc = "branch"
  /\ retval
  /\ phases_data' = SetStatus(phases_data, i, Complete)
  /\ pc' = "print_complete"
  /\ UNCHANGED << config, live, i, script_path, table, updates, message, runs, script_kind,
                  child, emitted, nread, sink, returncode, retval,
                  exit_status >>

\* deploy.py:69
PrintComplete == PrintMessage("print_complete", "complete", "update_done")

\* deploy.py:75
UpdateDone == LiveUpdate("update_done", "sleep")

\* deploy.py:76
Sleep ==
  /\ pc = "sleep"
  /\ pc' = "loop"
  /\ UNCHANGED << config, live, phases_data, i, script_path, table, updates, message, runs,
                  script_kind, child, emitted, nread, sink, returncode,
                  retval, exit_status >>

\* the failed script is started again
SetFailed_Retries ==
  /\ pc = "branch"
  /\ ~ retval
  /\ pc' = "popen"
  /\ UNCHANGED << config, live, phases_data, i, script_path, table, updates,
                  message, runs, script_kind, child, emitted, nread, sink,
                  returncode, retval, exit_status >>

\* deploy.py:70-71, run_phase_script returned False
SetFailed ==
  /\ pc = "branch"
  /\ ~ retval
  /\ phases_data' = SetStatus(phases_data, i, Failed)
  /\ pc' = "update_failed"
  /\ UNCHANGED << config, live, i, script_path, table, updates, message, runs, script_kind,
                  child, emitted, nread, sink, returncode, retval,
                  exit_status >>

\* the table is not rendered again
UpdateFailed_Skipped ==
  /\ pc = "update_failed"
  /\ pc' = "print_abort"
  /\ UNCHANGED << config, live, phases_data, i, script_path, table, updates, message, runs,
                  script_kind, child, emitted, nread, sink, returncode,
                  retval, exit_status >>

\* deploy.py:72
UpdateFailed == LiveUpdate("update_failed", "print_abort")

\* deploy.py:73
PrintAbort == PrintMessage("print_abort", "abort", "exit")

\* the loop goes on after a failure
Exit1_Continues ==
  /\ pc = "exit"
  /\ pc' = "update_done"
  /\ UNCHANGED << config, live, phases_data, i, script_path, table, updates, message, runs,
                  script_kind, child, emitted, nread, sink, returncode,
                  retval, exit_status >>

\* the exit status is the child's
Exit1_ChildCode ==
  /\ pc = "exit"
  /\ pc' = "exited"
  /\ exit_status' = returncode[i]
  /\ live' = "stopped"
  /\ UNCHANGED << config, phases_data, i, script_path, table, updates, message, runs,
                  script_kind, child, emitted, nread, sink, returncode,
                  retval >>

\* deploy.py:74, exit(1): SystemExit leaves the with block and the process
Exit1 ==
  /\ pc = "exit"
  /\ pc' = "exited"
  /\ exit_status' = {1}
  /\ live' = "stopped"
  /\ UNCHANGED << config, phases_data, i, script_path, table, updates, message, runs,
                  script_kind, child, emitted, nread, sink, returncode,
                  retval >>

\* deploy.py:78, the final message; main returns and the process exits 0
PrintDone ==
  /\ pc = "print_done"
  /\ message' = Msg("orchestration_complete", "")
  /\ pc' = "done"
  /\ exit_status' = {0}
  /\ UNCHANGED << config, live, phases_data, i, script_path, table, updates, runs,
                  script_kind, child, emitted, nread, sink, returncode,
                  retval >>

Next ==
  \/ PrintBanner \/ LoadConfig \/ LoadConfigRaises \/ LiveEnter
  \/ LoopNext \/ LoopEnd \/ SetRunning \/ UpdateRunning \/ PrintStart
  \/ RunPhaseScript \/ Popen \/ PopenRaises \/ StreamLine \/ StreamEOF
  \/ ProcessWait \/ Return
  \/ ChildWrite \/ ChildCloseOutput \/ ChildExit \/ BashDiagnoses \/ BashFails
  \/ SetComplete \/ PrintComplete \/ UpdateDone \/ Sleep
  \/ SetFailed \/ UpdateFailed \/ PrintAbort \/ Exit1 \/ PrintDone

Spec == Init /\ [][Next]_vars

\* the steps of the python process: main and run_phase_script
OrchNext ==
  \/ PrintBanner \/ LoadConfig \/ LoadConfigRaises \/ LiveEnter
  \/ LoopNext \/ LoopEnd \/ SetRunning \/ UpdateRunning \/ PrintStart
  \/ RunPhaseScript \/ Popen \/ PopenRaises \/ StreamLine \/ StreamEOF
  \/ ProcessWait \/ Return
  \/ SetComplete \/ PrintComplete \/ UpdateDone \/ Sleep
  \/ SetFailed \/ UpdateFailed \/ PrintAbort \/ Exit1 \/ PrintDone

\* the steps by which a started child comes to its exit
ChildEnds == ChildExit \/ BashDiagnoses \/ BashFails

\* the interpreter keeps executing main (its code has no other blocking call
\* than the read of the pipe and process.wait()), and every script that was
\* started eventually exits
LiveSpec == Init /\ [][Next]_vars /\ WF_vars(OrchNext) /\ WF_vars(ChildEnds)

\* the run is over: main returned, exit(1) was called, or an exception ended it
Terminated == pc \in {"done", "exited", "crashed"}

TypeOK ==
  /\ pc \in {"banner", "load_config", "live_enter", "loop", "set_running",
             "update_running", "print_start", "call", "popen", "stream",
             "wait", "return", "branch", "print_complete", "update_done",
             "sleep", "update_failed", "print_abort", "exit", "print_done",
             "done", "exited", "crashed"}
  /\ i \in 0 .. N
  /\ \A k \in 1 .. N : phases_data[k].status \in {Pending, Running, Complete, Failed}
  /\ nread \in 0 .. Len(emitted)
  /\ Len(sink) = nread
  /\ exit_status \in {{}, {0}, {1}}
  /\ live \in {"none", "active", "stopped"}
  /\ config \in {"unloaded", "loaded", "failed"}

\* ------------------------------------------------------------ vocabulary
Status(k) == phases_data[k].status

Phases == 1 .. N

\* the script of phase k was started and its process ended with code 0
Succeeded(k) == child[k].code = {0}

\* the process of phase k ended with a code other than 0 (or by a signal)
ExitedNonZero(k) == child[k].code # {} /\ child[k].code # {0}

\* the process of phase k exists and has not been reaped
Alive(k) == child[k].state \in {"running", "closed", "exited"}

RECURSIVE SumRuns(_)
SumRuns(k) == IF k = 0 THEN 0 ELSE runs[k] + SumRuns(k - 1)

NonZeroExit == exit_status # {} /\ exit_status # {0}

\* ------------------------------------------------------------------ C1
\* C1: once some phase is Failed, run_phase_script has not been, and never
\* is, called for a phase of greater index.
C1_NoRunAfterFailed ==
  \A k \in Phases : Status(k) = Failed =>
    \A j \in Phases : j > k => runs[j] = 0 /\ child[j] = NoChild

\* a run that failed at a phase which is not the last one, and ended
C1_Witness ==
  /\ pc = "exited"
  /\ \E k \in Phases : Status(k) = Failed /\ k < N /\ k > 1

\* ------------------------------------------------------------------ C2
\* C2: at most one phase is Running, at most one child process is alive,
\* and whenever run_phase_script is entered no earlier child is still alive.
C2_OneRunningOneChild ==
  /\ Cardinality({k \in Phases : Status(k) = Running}) <= 1
  /\ Cardinality({k \in Phases : Alive(k)}) <= 1
  /\ pc \in {"call", "popen"} => \A k \in Phases : ~ Alive(k)
  /\ \A k \in Phases : runs[k] <= 1

\* the third phase is Running with its child alive, the earlier ones reaped
C2_Witness ==
  /\ i = 3
  /\ Status(3) = Running
  /\ child[3].state = "running"
  /\ child[1].state = "reaped" /\ child[2].state = "reaped"

\* ------------------------------------------------------------------ C3
\* C3: at the end of a run, a phase whose script was run and exited non-zero
\* is Failed, the exit status is non-zero and every later phase is Pending.
C3_NonZeroExitFails ==
  Terminated =>
    \A k \in Phases : ExitedNonZero(k) =>
      /\ Status(k) = Failed
      /\ NonZeroExit
      /\ \A j \in Phases : j > k => Status(j) = Pending

\* the scenario [A ok, B ok, C exit 2, D ok]
C3_Witness ==
  /\ Terminated
  /\ N = 4
  /\ child[1].code = {0} /\ child[2].code = {0} /\ child[3].code = {2}
  /\ [k \in Phases |-> Status(k)] = <<Complete, Complete, Failed, Pending>>
  /\ exit_status = {1}
  /\ runs[4] = 0

\* ------------------------------------------------------------------ C4
\* C4: at the end of a run that entered the loop, run_phase_script was called
\* once for every phase whose predecessors all succeeded (the phases that
\* succeeded up to the first failure, plus the first failing one) and never
\* for a phase after a failure; a run that ended before the loop made no call.
C4_InvocationCount ==
  Terminated =>
    IF live = "none"
    THEN SumRuns(N) = 0
    ELSE
      /\ \A k \in Phases :
           runs[k] = IF \A j \in 1 .. k - 1 : Succeeded(j) THEN 1 ELSE 0
      /\ SumRuns(N) =
           Cardinality({k \in Phases : \A j \in 1 .. k - 1 : Succeeded(j)})
      /\ SumRuns(N) =
           Cardinality({k \in Phases : \A j \in 1 .. k : Succeeded(j)})
           + (IF \E k \in Phases : ~ Succeeded(k) THEN 1 ELSE 0)

\* two phases succeeded, the third failed, a fourth was never run
C4_Witness ==
  /\ pc = "exited"
  /\ N >= 4
  /\ Succeeded(1) /\ Succeeded(2) /\ ExitedNonZero(3)
  /\ SumRuns(N) = 3

\* ------------------------------------------------------------------ C5
\* C5 as stated: the exit status is 0 iff every phase ended Complete and is
\* exactly 1 iff some phase ended Failed.
C5_Original ==
  Terminated =>
    /\ exit_status = {0} <=> \A k \in Phases : Status(k) = Complete
    /\ exit_status = {1} <=> \E k \in Phases : Status(k) = Failed

\* C5 amended: the exit status is 0 exactly when the loop ran to its end, and
\* then every phase is Complete; when some phase ended Failed the exit status
\* is exactly 1 whatever the child's code was; an exit status 1 without a
\* Failed phase is a run ended by an uncaught exception.
C5_ExitStatus ==
  Terminated =>
    /\ exit_status = {0} <=> pc = "done"
    /\ exit_status = {0} => \A k \in Phases : Status(k) = Complete
    /\ (\E k \in Phases : Status(k) = Failed) => exit_status = {1}
    /\ (exit_status = {1} /\ ~ \E k \in Phases : Status(k) = Failed)
         => pc = "crashed"
    /\ exit_status \in {{0}, {1}}

\* a child exited with code 2 and the process exited with 1
C5_Witness ==
  /\ pc = "exited"
  /\ \E k \in Phases : Status(k) = Failed /\ child[k].code = {2}
  /\ exit_status = {1}

\* ------------------------------------------------------------------ C6
\* C6: every phase starts Pending and its status only changes from Pending
\* to Running and from Running to Complete or Failed.
C6_Step ==
  \A k \in Phases :
    phases_data'[k].status # phases_data[k].status =>
      \/ Status(k) = Pending /\ phases_data'[k].status = Running
      \/ Status(k) = Running /\ phases_data'[k].status \in {Complete, Failed}

C6_StatusMachine ==
  /\ \A k \in Phases : Status(k) = Pending
  /\ [][C6_Step]_vars

\* one phase has become Complete, the next one Failed
C6_Witness ==
  \E k \in Phases : k < N /\ Status(k) = Complete /\ Status(k + 1) = Failed

\* ------------------------------------------------------------------ C7
\* the script of the current phase cannot be started as a program: it is
\* missing, not executable or unreadable, or bash itself could not be spawned
LaunchError ==
  /\ i >= 1
  /\ \/ script_kind \in {"missing", "not_executable", "unreadable"}
     \/ pc = "crashed"

\* C7: a phase whose script cannot be started is never Complete, and at the
\* end of the run it is Failed (not Running), the exit status is non-zero
\* and no later phase was invoked.
C7_LaunchErrorFails ==
  LaunchError =>
    /\ Status(i) # Complete
    /\ Terminated =>
         /\ Status(i) = Failed
         /\ NonZeroExit
         /\ \A j \in Phases : j > i => runs[j] = 0

\* ------------------------------------------------------------------ C8
\* C8: when the script of the first phase does not exist, the run ends with
\* no line delivered to the sink, the phase Failed and a non-zero exit status.
C8_MissingScriptNoLines ==
  (Terminated /\ i = 1 /\ script_kind = "missing") =>
    /\ Len(sink) = 0
    /\ Status(1) = Failed
    /\ NonZeroExit

\* ------------------------------------------------------------------ C9
\* C9: once the loop over the child's output has ended, the sink has received
\* one call per line the child wrote, in the order written; and every sink
\* call is made while run_phase_script has not yet seen the child's exit.
C9_AfterLoop ==
  /\ \A k \in 1 .. Len(sink) : k <= Len(emitted) /\ sink[k] = SinkText(emitted[k])
  /\ pc \in {"wait", "return", "branch"} => Len(sink) = Len(emitted)

C9_SinkStep ==
  Len(sink') > Len(sink) =>
    /\ pc = "stream" /\ pc' = "stream"
    /\ returncode[i] = {} /\ child[i].state # "reaped"
    /\ Len(sink') = Len(sink) + 1

C9_LineStreaming == [] C9_AfterLoop /\ [][C9_SinkStep]_vars

\* a script wrote two different lines and run_phase_script is about to return
C9_Witness ==
  /\ pc = "return"
  /\ Len(emitted) >= 2
  /\ Len(sink) = Len(emitted)
  /\ sink[1] # sink[2]

\* ------------------------------------------------------------------ C10
\* C10: the abort message is printed only after the table was rendered with
\* the failing phase Failed, it names that phase, and exit(1) comes after it.
C10_Step ==
  /\ (message'.kind = "abort" /\ message.kind # "abort") =>
       /\ Status(i) = Failed
       /\ table = make_table(phases_data)
       /\ table[i] = << phases_data[i].name, Failed >>
       /\ message'.phase = phases_data[i].name
  /\ (exit_status' # exit_status /\ \E k \in Phases : Status(k) = Failed) =>
       /\ message = Msg("abort", phases_data[i].name)
       /\ Status(i) = Failed
       /\ table[i] = << phases_data[i].name, Failed >>

C10_AbortOrder ==
  /\ [](pc = "exited" =>
          /\ Status(i) = Failed
          /\ table[i] = << phases_data[i].name, Failed >>
          /\ message = Msg("abort", phases_data[i].name))
  /\ [][C10_Step]_vars

\* the run aborted at the second phase
C10_Witness ==
  /\ pc = "exited"
  /\ i = 2
  /\ Status(2) = Failed
  /\ message = Msg("abort", "Infrastructure")

\* ------------------------------------------------------------------ C11
\* C11: when loading the configuration fails the run is over at once: no
\* phase has left Pending, run_phase_script was never called, no child exists
\* and nothing was rendered (not even the initial table).
C11_ConfigFailureAborts ==
  config = "failed" =>
    /\ Terminated
    /\ NonZeroExit
    /\ \A k \in Phases : Status(k) = Pending /\ runs[k] = 0 /\ child[k] = NoChild
    /\ live = "none" /\ table = << >> /\ updates = 0
    /\ i = 0

\* the load failed in front of the full phase list of the program
C11_Witness ==
  /\ config = "failed"
  /\ pc = "crashed"
  /\ N = Len(AllPhases)

\* ------------------------------------------------------------------ C12
\* C12: a phase whose script exited 0 is never Failed; at the end of the run
\* it is Complete, the run was not aborted at it, and the next phase in list
\* order was invoked, or the run finished with status 0 if it was the last.
\* The loop index only ever moves to the next phase, after a success.
C12_AtEnd ==
  \A k \in Phases : Succeeded(k) =>
    /\ Status(k) # Failed
    /\ Terminated =>
         /\ Status(k) = Complete
         /\ ~ (pc = "exited" /\ i = k)
         /\ k < N => runs[k + 1] = 1 /\ i > k
         /\ k = N => pc = "done" /\ exit_status = {0}

C12_Step ==
  i' # i =>
    /\ i' = i + 1
    /\ i >= 1 => Succeeded(i) /\ Status(i) = Complete

C12_SuccessContinues == [] C12_AtEnd /\ [][C12_Step]_vars

\* two scripts exited 0 and the run finished with success
C12_Witness ==
  /\ pc = "done"
  /\ N = 2
  /\ Succeeded(1) /\ Succeeded(2)
  /\ Status(1) = Complete /\ Status(2) = Complete
  /\ exit_status = {0}

\* ------------------------------------------------------------------ C13
\* a signal ended the process of phase k (Popen reports it as a negative code)
KilledBySignal(k) == \E c \in child[k].code : c < 0

\* C13: a script killed by a signal is never reported as a success and its
\* phase ends Failed; and what run_phase_script hands back for it differs
\* from what it hands back for any ordinary exit.
C13_SignalDistinguishable ==
  \A k \in Phases : KilledBySignal(k) =>
    /\ Status(k) # Complete
    /\ Terminated => Status(k) = Failed
    /\ (pc = "branch" /\ i = k) =>
         /\ ~ retval
         /\ \A c \in ScriptExits : c >= 0 => ReturnValue({c}) # retval

\* ------------------------------------------------------------------ C14
\* C14: once the Live display exists, the table it holds equals the current
\* statuses whenever a script is started and whenever the run ends, and
\* every status change is rendered before the next status change.
C14_Rendered ==
  (live # "none" /\ (pc \in {"print_start", "call", "popen"} \/ Terminated))
    => table = make_table(phases_data)

C14_Step ==
  phases_data' # phases_data => table = make_table(phases_data)

C14_RenderAfterChange == [] C14_Rendered /\ [][C14_Step]_vars

\* the script of the second phase is about to be started
C14_Witness ==
  /\ pc = "popen"
  /\ i = 2
  /\ table[1][2] = Complete /\ table[2][2] = Running
  /\ updates = 3

\* ------------------------------------------------------------------ C15
\* the process of phase k has been started and has not exited
StillRunning(k) == child[k].state \in {"running", "closed"}

\* C15: a phase leaves Running only when its child has exited and been
\* reaped and every line it wrote has been delivered; while a child is still
\* running main is inside run_phase_script and changes no status, renders
\* nothing and starts no other script.
C15_Blocked ==
  \A k \in Phases : StillRunning(k) =>
    /\ k = i
    /\ pc \in {"stream", "wait"}
    /\ Status(k) = Running

C15_Step ==
  /\ \A k \in Phases :
       (Status(k) = Running /\ phases_data'[k].status # Running) =>
         /\ child[k].state = "reaped"
         /\ returncode[k] = child[k].code /\ returncode[k] # {}
         /\ Len(sink) = Len(emitted)
  /\ (\E k \in Phases : StillRunning(k)) =>
       /\ phases_data' = phases_data
       /\ table' = table /\ updates' = updates
       /\ runs' = runs
       /\ message' = message

C15_LeavesRunningAfterExit == [] C15_Blocked /\ [][C15_Step]_vars

\* a script that closed its output early was waited for; its two lines were
\* delivered before its phase became Complete
C15_Witness ==
  /\ i >= 1
  /\ pc = "print_complete"
  /\ Status(i) = Complete
  /\ child[i].state = "reaped"
  /\ Len(emitted) >= 2 /\ Len(sink) = Len(emitted)

\* ------------------------------------------------------------------ C16
\* C16: with an empty phase list main never enters the loop body: no script
\* is invoked, the table is rendered once (the initial, empty one) and never
\* updated, and the loop ends in the final message and exit status 0.
C16_EmptyList ==
  N = 0 =>
    /\ pc \in {"banner", "load_config", "live_enter", "loop", "print_done",
               "done", "crashed"}
    /\ updates = 0
    /\ i = 0 /\ script_kind = "unknown" /\ emitted = << >> /\ sink = << >>
    /\ live # "none" =>
         /\ table = << >>
         /\ pc # "crashed"
         /\ Terminated => pc = "done" /\ exit_status = {0}

\* the run over the empty list has finished
C16_Witness ==
  /\ N = 0
  /\ pc = "done"
  /\ live = "stopped"
  /\ exit_status = {0}

\* ------------------------------------------------------------------ C17
\* C17: a step changes the status of no phase but the one at the loop index,
\* and never the name, script or number of the phases; the loop index only
\* moves from one phase to the next, and only after that phase was run.
C17_Step ==
  /\ Len(phases_data') = Len(phases_data)
  /\ \A k \in Phases :
       /\ phases_data'[k].name = phases_data[k].name
       /\ phases_data'[k].script = phases_data[k].script
       /\ phases_data'[k].status # phases_data[k].status => k = i /\ i' = i
  /\ i' # i => i' = i + 1 /\ (i >= 1 => runs[i] = 1)
  /\ \A k \in Phases :
       phases_data[k].name = AllPhases[k].name
         /\ phases_data[k].script = AllPhases[k].script

C17_Frame == [][C17_Step]_vars

\* the third of four phases is being run
C17_Witness ==
  /\ N = 4
  /\ i = 3
  /\ pc = "stream"
  /\ [k \in Phases |-> Status(k)] = <<Complete, Complete, Running, Pending>>

\* ------------------------------------------------------------------ C18
\* C18: the statuses are always Complete*, then at most one Running or
\* Failed phase, then Pending*.
C18_Shape ==
  /\ \A k \in Phases : Status(k) \in {Running, Failed} =>
       /\ \A j \in Phases : j < k => Status(j) = Complete
       /\ \A j \in Phases : j > k => Status(j) = Pending
  /\ \A k \in Phases : Status(k) = Pending =>
       \A j \in Phases : j > k => Status(j) = Pending
  /\ Cardinality({k \in Phases : Status(k) \in {Running, Failed}}) <= 1

\* Complete, Failed, Pending
C18_Witness ==
  /\ N = 3
  /\ [k \in Phases |-> Status(k)] = <<Complete, Failed, Pending>>

\* ------------------------------------------------------------------ C19
\* C19 as stated, its part about the end of the run: no phase is Running and
\* either every phase is Complete or exactly one phase is Failed.
C19_Original ==
  Terminated =>
    /\ \A k \in Phases : Status(k) # Running
    /\ \/ \A k \in Phases : Status(k) = Complete
       \/ Cardinality({k \in Phases : Status(k) = Failed}) = 1

\* as long as a started script has not exited its phase stays Running, the
\* run does not end and no later phase is started
C19_Stuck ==
  \A k \in Phases : StillRunning(k) =>
    /\ Status(k) = Running
    /\ ~ Terminated
    /\ \A j \in Phases : j > k => runs[j] = 0 /\ Status(j) = Pending

\* how a run ends: main returned with every phase Complete; exit(1) with
\* exactly one phase Failed and none Running; or an uncaught exception, of the
\* configuration load (every phase Pending) or of Popen (the phase at the
\* loop index left Running)
C19_AtEnd ==
  Terminated =>
    \/ pc = "done" /\ \A k \in Phases : Status(k) = Complete
    \/ /\ pc = "exited"
       /\ Cardinality({k \in Phases : Status(k) = Failed}) = 1
       /\ \A k \in Phases : Status(k) # Running
    \/ pc = "crashed" /\ config = "failed"
         /\ \A k \in Phases : Status(k) = Pending
    \/ pc = "crashed" /\ config = "loaded" /\ i >= 1
         /\ Status(i) = Running /\ child[i] = NoChild
         /\ \A k \in Phases : Status(k) # Failed

\* C19 amended: when every started script eventually exits the run
\* eventually ends, in one of the ways of C19_AtEnd; and a script that has
\* not exited keeps its phase Running and every later phase unstarted.
C19_Termination == <> Terminated /\ [] C19_AtEnd /\ [] C19_Stuck

\* the full list of the program ran to its end
C19_Witness ==
  /\ pc = "done"
  /\ N = Len(AllPhases)
  /\ \A k \in Phases : Status(k) = Complete /\ child[k].state = "reaped"

====
